---- MODULE Spec2Model ----
(***************************************************************************)
(* A model of the CUDA backend's stream compaction (copy_if.inl) and of    *)
(* the block-level copy primitives (block/copy.h) of thrust.               *)
(*                                                                         *)
(* Two state machines share the module:                                    *)
(*   CopyIfSpec    copy_if: the host's phases and the scatter closure run  *)
(*                 by every (group, lane) pair, with the group barrier;    *)
(*   BlockCopySpec block::copy and trivial_copy run by every lane of one   *)
(*                 group.                                                  *)
(* Each specification leaves the other machine's variables untouched.      *)
(***************************************************************************)
EXTENDS Integers, Sequences, FiniteSets, TLC

(***************************************************************************)
(* Bounds of the model.                                                    *)
(***************************************************************************)
\* longest input sequence given to copy_if
MaxN == 3
\* most (group, lane) pairs of a scatter launch: groups * group size
MaxLanes == 4
\* most groups (intervals) of a decomposition
MaxGroups == 2
\* most elements given to block::copy
MaxCount == 9
\* largest group size (block_dimension) of a block::copy call
MaxDim == 2

(***************************************************************************)
(* Types and constants of the program.                                     *)
(***************************************************************************)
\* Width in bits of `unsigned int`, the type of the loop index and of
\* aligned_copy's num_elements (copy.h 60-64, 95); size_t is wider and never
\* wraps here.  Scaled down from 32 so that byte counts of 2^UIntBits and more
\* are reachable; as in the program, 2^UIntBits exceeds WideSize plus any
\* group size of the model.
UIntBits == 4
\* sizeof(uint2), sizeof(int2): the wide word of trivial_copy
WideSize == 8
\* the first architecture on which the trivial path is enabled
FermiArch == 200

VARIABLES
  \* ---- copy_if: the call's arguments
  n,              \* last - first
  stencil,        \* stencil[p], p in 0..n-1, raw stencil values
  cta,            \* Context::ThreadsPerBlock of the scatter closure
  garbage,        \* what uninitialised shared memory holds
  \* ---- copy_if: host state
  hostpc,         \* position of the host in copy_if
  decomp,         \* the decomposition: group -> [begin, end]
  block_results,  \* per-group counts, then per-group offsets
  reduced,        \* groups whose interval reduction has finished
  launches,       \* the launches and passes the host has started
  returned,       \* offset of the returned iterator from output (-1: none)
  \* ---- copy_if: device state of the scatter launch
  output,         \* the output sequence, position -> value (0: never written)
  written,        \* <<group, lane, position, source>> of every output write
  rewritten,      \* positions written when already written
  reads,          \* <<group, lane, array, index>> of every read by a scatter lane
  sdata,          \* group -> the group's shared scan buffer
  pc,             \* <<group, lane>> -> position in the closure
  cont,           \* <<group, lane>> -> where the lane resumes after a wait
  base,           \* <<group, lane>> -> the closure's local `base`
  cursor,         \* <<group, lane>> -> the closure's local `output` offset
  predicate,      \* <<group, lane>> -> the closure's local `predicate`
  \* ---- block::copy: the call's arguments and compile-time choices
  arch,           \* __CUDA_ARCH__
  trivial,        \* is_trivial_copy<Iterator1, Iterator2>::type
  esize,          \* sizeof(T)
  count,          \* last - first
  dim,            \* context.block_dimension()
  srcAddr,        \* address of the first source element
  dstAddr,        \* address of the first destination element
  \* ---- block::copy: memory and the lanes
  dst,            \* destination bytes, offset -> value (0: never written)
  xfer,           \* <<lane, kind, index>> of every transfer performed
  lpc,            \* lane -> position in block::copy / trivial_copy
  li,             \* lane -> the loop index `i` (or the iterator `first`)
  lnum,           \* lane -> aligned_copy's parameter num_elements
  ret             \* lane -> offset of the returned iterator from result

ci_args == <<n, stencil, cta, garbage>>
ci_host == <<hostpc, decomp, block_results, reduced, launches, returned>>
ci_dev  == <<output, written, rewritten, reads, sdata, pc, cont, base, cursor,
             predicate>>
ci_vars == <<ci_args, ci_host, ci_dev>>

bc_args == <<arch, trivial, esize, count, dim, srcAddr, dstAddr>>
bc_mem  == <<dst, xfer>>
bc_lane == <<lpc, li, lnum, ret>>
bc_vars == <<bc_args, bc_mem, bc_lane>>

vars == <<ci_vars, bc_vars>>

(***************************************************************************)
(* Values.                                                                 *)
(***************************************************************************)
\* raw stencil values; the predicate of the model is "non-zero"
StencilVals == {0, 2}

\* The input element at position p.  Elements are tagged by their position,
\* so that a copy from a wrong position is visible in the output.
InputAt(p) == p + 1

\* Pred(v): the user's predicate applied to a stencil value.
Pred(v) == v # 0

\* predicate_to_integral: the predicate's result as an integral value in {0,1}
PredicateToIndex(v) == IF Pred(v) THEN 1 ELSE 0

\* dereference(stencil + p); beyond the range the memory holds anything
StencilAt(p) == IF p \in DOMAIN stencil THEN stencil[p] ELSE 2 * garbage

\* dereference(predicate_stencil + p)
PredicateStencil(p) == PredicateToIndex(StencilAt(p))

RECURSIVE SumTo(_, _, _)
\* f[lo] + ... + f[hi] (0 when hi < lo)
SumTo(f, lo, hi) == IF hi < lo THEN 0 ELSE f[hi] + SumTo(f, lo, hi - 1)

RECURSIVE CountTrue(_, _)
\* number of positions p in lo..hi-1 whose stencil value satisfies the predicate
CountTrue(lo, hi) == IF hi <= lo THEN 0
                     ELSE PredicateStencil(hi - 1) + CountTrue(lo, hi - 1)

(***************************************************************************)
(* The decomposition (external): contiguous non-empty intervals, one per   *)
(* group, that cover [0, N).                                               *)
(***************************************************************************)
\* the k-th smallest element (k = 0, 1, ...) of a finite set of numbers
KthSmallest(S, k) == CHOOSE x \in S : Cardinality({y \in S : y < x}) = k

\* the decomposition whose interior cut points are the set C
DecompOfCuts(N, C) ==
  LET B == C \cup {0, N}
      K == Cardinality(C) + 1
  IN  [g \in 0..(K - 1) |->
         [begin |-> KthSmallest(B, g), end |-> KthSmallest(B, g + 1)]]

\* every decomposition default_decomposition(N) may return
Decompositions(N) ==
  IF N = 0
    THEN {<<>>}
    ELSE { DecompOfCuts(N, C) :
             C \in { D \in SUBSET (1..(N - 1)) :
                       /\ Cardinality(D) + 1 <= MaxGroups
                       /\ (Cardinality(D) + 1) * cta <= MaxLanes } }

NumGroups == Cardinality(DOMAIN decomp)
Groups    == 0..(NumGroups - 1)
LaneIds   == 0..(cta - 1)
Lanes     == Groups \X LaneIds

(***************************************************************************)
(* Scans.                                                                  *)
(***************************************************************************)
\* thrust::inclusive_scan with plus over a function on 0..K-1
InclusiveScan(f) == [i \in DOMAIN f |-> SumTo(f, 0, i)]

\* cuda::block::inplace_inclusive_scan with plus over the shared buffer
InplaceInclusiveScan(s) == [i \in DOMAIN s |-> SumTo(s, 0, i)]

(***************************************************************************)
(* copy_if: initial state.                                                 *)
(***************************************************************************)
CopyIfInit ==
  /\ n \in 0..MaxN
  /\ stencil \in [0..(n - 1) -> StencilVals]
  /\ cta \in 1..MaxLanes
  /\ garbage \in {0, 1}
  /\ hostpc = "call"
  /\ decomp = <<>>
  /\ block_results = <<>>
  /\ reduced = {}
  /\ launches = {}
  /\ returned = -1
  /\ output = [p \in 0..(n - 1) |-> 0]
  /\ written = {}
  /\ rewritten = {}
  /\ reads = {}
  /\ sdata = <<>>
  /\ pc = <<>>
  /\ cont = <<>>
  /\ base = <<>>
  /\ cursor = <<>>
  /\ predicate = <<>>

\* no call of copy_if is in progress
CopyIfIdle ==
  /\ n = 0
  /\ stencil = <<>>
  /\ cta = 1
  /\ garbage = 0
  /\ hostpc = "idle"
  /\ decomp = <<>>
  /\ block_results = <<>>
  /\ reduced = {}
  /\ launches = {}
  /\ returned = -1
  /\ output = <<>>
  /\ written = {}
  /\ rewritten = {}
  /\ reads = {}
  /\ sdata = <<>>
  /\ pc = <<>>
  /\ cont = <<>>
  /\ base = <<>>
  /\ cursor = <<>>
  /\ predicate = <<>>

\* no call of block::copy is in progress
BlockCopyIdle ==
  /\ arch = FermiArch
  /\ trivial = FALSE
  /\ esize = 1
  /\ count = 0
  /\ dim = 1
  /\ srcAddr = 0
  /\ dstAddr = 0
  /\ dst = <<>>
  /\ xfer = {}
  /\ lpc = <<>>
  /\ li = <<>>
  /\ lnum = <<>>
  /\ ret = <<>>

(***************************************************************************)
(* copy_if: the host.                                                      *)
(***************************************************************************)
\* mutant of IsEmptyRange: the degenerate case is never detected
IsEmptyRange_Never == FALSE

\* copy_if.inl 178: first == last
IsEmptyRange == n = 0

\* copy_if.inl 178-179: the degenerate case
ReturnEmpty ==
  /\ hostpc = "call"
  /\ IsEmptyRange
  /\ returned' = 0
  /\ hostpc' = "done"
  /\ UNCHANGED <<ci_args, decomp, block_results, reduced, launches, ci_dev>>

\* copy_if.inl 184-196: decomposition, temporary storage, reduce_intervals launch
Decompose ==
  /\ hostpc = "call"
  /\ ~IsEmptyRange
  /\ \E d \in Decompositions(n) :
       /\ decomp' = d
       /\ block_results' = [g \in DOMAIN d |-> garbage]
       /\ sdata' = [g \in DOMAIN d |-> [l \in LaneIds |-> garbage]]
       /\ pc' = [gl \in (DOMAIN d) \X LaneIds |-> "idle"]
       /\ cont' = [gl \in (DOMAIN d) \X LaneIds |-> "idle"]
       /\ base' = [gl \in (DOMAIN d) \X LaneIds |-> 0]
       /\ cursor' = [gl \in (DOMAIN d) \X LaneIds |-> 0]
       /\ predicate' = [gl \in (DOMAIN d) \X LaneIds |-> 0]
  /\ launches' = launches \cup {"reduce"}
  /\ hostpc' = "reduce"
  /\ UNCHANGED <<ci_args, reduced, returned, output, written, rewritten, reads>>

\* reduce_intervals (external): group g sums the flags of its interval
ReduceInterval(g) ==
  /\ hostpc = "reduce"
  /\ g \in Groups \ reduced
  /\ block_results' =
       [block_results EXCEPT ![g] = CountTrue(decomp[g].begin, decomp[g].end)]
  /\ reduced' = reduced \cup {g}
  /\ UNCHANGED <<ci_args, hostpc, decomp, launches, returned, ci_dev>>

\* mutant of ReduceFinished: the scan does not wait for the reduction
ReduceFinished_Early == TRUE

\* copy_if.inl 196-199: reduce_intervals has returned, every group is reduced
ReduceFinished == reduced = Groups

\* copy_if.inl 199: the in-place inclusive scan of the per-group counts
ScanPartialSums ==
  /\ hostpc = "reduce"
  /\ ReduceFinished
  /\ block_results' = InclusiveScan(block_results)
  /\ launches' = launches \cup {"scan"}
  /\ hostpc' = "launch"
  /\ UNCHANGED <<ci_args, decomp, reduced, returned, ci_dev>>

\* copy_if.inl 206-207: launch_closure starts every (group, lane) pair
LaunchClosure ==
  /\ hostpc = "launch"
  /\ pc' = [gl \in Lanes |-> "start"]
  /\ launches' = launches \cup {"scatter"}
  /\ hostpc' = "wait"
  /\ UNCHANGED <<ci_args, decomp, block_results, reduced, returned,
                 output, written, rewritten, reads, sdata, cont, base, cursor,
                 predicate>>

\* mutant of ReturnOffset: the first group's offset instead of the last one's
ReturnOffset_First == block_results[0]

\* copy_if.inl 209: the offset of the returned iterator from output
ReturnOffset == block_results[NumGroups - 1]

\* copy_if.inl 207-209: the launch has finished; return output + last offset
ReturnEnd ==
  /\ hostpc = "wait"
  /\ \A gl \in Lanes : pc[gl] = "done"
  /\ returned' = ReturnOffset
  /\ hostpc' = "done"
  /\ UNCHANGED <<ci_args, decomp, block_results, reduced, launches, ci_dev>>

(***************************************************************************)
(* copy_if: the scatter closure, one lane's steps.                         *)
(***************************************************************************)
\* context.barrier(): the lane arrives and waits; it resumes at `next`
Arrive(gl, next) ==
  /\ pc' = [pc EXCEPT ![gl] = "barrier"]
  /\ cont' = [cont EXCEPT ![gl] = next]

\* context.barrier(): every lane of the group has arrived; all resume
BarrierRelease(g) ==
  /\ hostpc = "wait"
  /\ g \in Groups
  /\ \A l \in LaneIds : pc[<<g, l>>] = "barrier"
  /\ pc' = [gl \in Lanes |-> IF gl[1] = g THEN cont[gl] ELSE pc[gl]]
  /\ UNCHANGED <<ci_args, ci_host, output, written, rewritten, reads, sdata, cont,
                 base, cursor, predicate>>

\* copy_if.inl 88: the shared buffer's declaration and the first barrier
EnterClosure(g, l) ==
  /\ pc[<<g, l>>] = "start"
  /\ Arrive(<<g, l>>, "setup")
  /\ UNCHANGED <<ci_args, ci_host, output, written, rewritten, reads, sdata,
                 base, cursor, predicate>>

\* mutant of GroupOffset: the offset lookup is skipped for every group
GroupOffset_Zero(g) == 0

\* mutant of OffsetSlot: a group looks up its own slot of the offsets
OffsetSlot_Own(g) == g

\* copy_if.inl 106: the slot of the offsets array group g looks up
OffsetSlot(g) == g - 1

\* copy_if.inl 104-108: the output offset of the group's interval
GroupOffset(g) == IF g # 0 THEN block_results[OffsetSlot(g)] ELSE 0

\* copy_if.inl 104-107: the reads of the offsets array a lane of group g makes
OffsetReads(g, l) == IF g # 0 THEN {<<g, l, "offsets", OffsetSlot(g)>>} ELSE {}

\* copy_if.inl 93-108: the interval, the iterators' start, the output offset
Setup(g, l) ==
  /\ pc[<<g, l>>] = "setup"
  /\ base' = [base EXCEPT ![<<g, l>>] = decomp[g].begin]
  /\ predicate' = [predicate EXCEPT ![<<g, l>>] = 0]
  /\ cursor' = [cursor EXCEPT ![<<g, l>>] = GroupOffset(g)]
  /\ reads' = reads \cup OffsetReads(g, l)
  /\ pc' = [pc EXCEPT ![<<g, l>>] = "loop"]
  /\ UNCHANGED <<ci_args, ci_host, output, written, rewritten, sdata, cont>>

\* copy_if.inl 111: the loop condition of the full chunks
FullChunk(g, l) == base[<<g, l>>] + cta <= decomp[g].end

\* mutant of PartialChunk: the partial chunk is entered lane by lane
PartialChunk_PerLane(g, l) == base[<<g, l>>] + l < decomp[g].end

\* copy_if.inl 140: the condition of the partial chunk
PartialChunk(g, l) == base[<<g, l>>] < decomp[g].end

\* mutant of ReadFull: the barrier between the stores and the scan is left out
ReadFull_NoBarrier(g, l) ==
  /\ pc[<<g, l>>] = "loop"
  /\ FullChunk(g, l)
  /\ LET f == PredicateStencil(base[<<g, l>>] + l)
     IN  /\ sdata' = [sdata EXCEPT ![g][l] = f]
         /\ predicate' = [predicate EXCEPT ![<<g, l>>] = f]
  /\ reads' = reads \cup {<<g, l, "stencil", base[<<g, l>>] + l>>}
  /\ pc' = [pc EXCEPT ![<<g, l>>] = "scan_full"]
  /\ UNCHANGED <<ci_args, ci_host, output, written, rewritten, cont, base, cursor>>

\* copy_if.inl 111-116: read the flag of a full chunk, then the barrier
ReadFull(g, l) ==
  /\ pc[<<g, l>>] = "loop"
  /\ FullChunk(g, l)
  /\ LET f == PredicateStencil(base[<<g, l>>] + l)
     IN  /\ sdata' = [sdata EXCEPT ![g][l] = f]
         /\ predicate' = [predicate EXCEPT ![<<g, l>>] = f]
  /\ reads' = reads \cup {<<g, l, "stencil", base[<<g, l>>] + l>>}
  /\ Arrive(<<g, l>>, "scan_full")
  /\ UNCHANGED <<ci_args, ci_host, output, written, rewritten, base, cursor>>

\* mutant of TailFlag: a lane beyond the interval end keeps the stale slot
TailFlag_Stale(g, l) ==
  IF base[<<g, l>>] + l < decomp[g].end
    THEN PredicateStencil(base[<<g, l>>] + l)
    ELSE sdata[g][l]

\* mutant of TailInRange: every lane of the partial chunk reads the stencil
TailInRange_Always(g, l) == TRUE

\* copy_if.inl 143: the lane's position of the partial chunk is in the interval
TailInRange(g, l) == base[<<g, l>>] + l < decomp[g].end

\* copy_if.inl 143-146: the flag a lane stores in the partial chunk
TailFlag(g, l) ==
  IF TailInRange(g, l)
    THEN PredicateStencil(base[<<g, l>>] + l)
    ELSE 0

\* copy_if.inl 143-145: the stencil read a lane of the partial chunk makes
TailReads(g, l) ==
  IF TailInRange(g, l) THEN {<<g, l, "stencil", base[<<g, l>>] + l>>} ELSE {}

\* copy_if.inl 140-148: read the flag of the partial chunk, then the barrier
ReadTail(g, l) ==
  /\ pc[<<g, l>>] = "loop"
  /\ ~FullChunk(g, l)
  /\ PartialChunk(g, l)
  /\ LET f == TailFlag(g, l)
     IN  /\ sdata' = [sdata EXCEPT ![g][l] = f]
         /\ predicate' = [predicate EXCEPT ![<<g, l>>] = f]
  /\ reads' = reads \cup TailReads(g, l)
  /\ Arrive(<<g, l>>, "scan_tail")
  /\ UNCHANGED <<ci_args, ci_host, output, written, rewritten, base, cursor>>

\* copy_if.inl 111, 140, 160: no chunk is left; the lane leaves the closure
Leave(g, l) ==
  /\ pc[<<g, l>>] = "loop"
  /\ ~FullChunk(g, l)
  /\ ~PartialChunk(g, l)
  /\ pc' = [pc EXCEPT ![<<g, l>>] = "done"]
  /\ UNCHANGED <<ci_args, ci_host, output, written, rewritten, reads, sdata, cont,
                 base, cursor, predicate>>

\* copy_if.inl 119, 151: where a lane continues after the group scan
AfterScan(p) == IF p = "scan_full" THEN "write_full" ELSE "write_tail"

\* copy_if.inl 119, 151, cuda::block::inplace_inclusive_scan (external): once
\* every lane of the group has called it, the buffer holds its inclusive
\* prefix sums and all lanes return from it
GroupScan(g) ==
  /\ hostpc = "wait"
  /\ g \in Groups
  /\ \A l \in LaneIds : pc[<<g, l>>] \in {"scan_full", "scan_tail"}
  /\ sdata' = [sdata EXCEPT ![g] = InplaceInclusiveScan(sdata[g])]
  /\ pc' = [gl \in Lanes |-> IF gl[1] = g THEN AfterScan(pc[gl]) ELSE pc[gl]]
  /\ UNCHANGED <<ci_args, ci_host, output, written, rewritten, reads, cont,
                 base, cursor, predicate>>

\* mutant of ScatterPos: the inclusive scan value is used as an exclusive one
ScatterPos_NoMinusOne(g, l) == cursor[<<g, l>>] + sdata[g][l]

\* copy_if.inl 124, 156: the output position a lane with a true flag writes
ScatterPos(g, l) == cursor[<<g, l>>] + (sdata[g][l] - 1)

\* copy_if.inl 125, 157: dereference(temp2) = dereference(input)
StoreOutput(g, l) ==
  LET pos == ScatterPos(g, l)
  IN  /\ output' = IF pos \in DOMAIN output
                     THEN [output EXCEPT ![pos] = InputAt(base[<<g, l>>] + l)]
                     ELSE output
      /\ written' = written \cup {<<g, l, pos, base[<<g, l>>] + l>>}
      /\ rewritten' = IF \E w \in written : w[3] = pos
                        THEN rewritten \cup {pos}
                        ELSE rewritten
      /\ reads' = reads \cup {<<g, l, "input", base[<<g, l>>] + l>>}

\* mutant of WriteIf: the element is written whatever the lane's flag
WriteIf_Always(g, l) == StoreOutput(g, l)

\* copy_if.inl 122-126, 154-158: write the element if the lane's flag is true
WriteIf(g, l) ==
  IF predicate[<<g, l>>] # 0
    THEN StoreOutput(g, l)
    ELSE UNCHANGED <<output, written, rewritten, reads>>

\* copy_if.inl 121-126: write data of a full chunk
WriteFull(g, l) ==
  /\ pc[<<g, l>>] = "write_full"
  /\ WriteIf(g, l)
  /\ pc' = [pc EXCEPT ![<<g, l>>] = "advance"]
  /\ UNCHANGED <<ci_args, ci_host, sdata, cont, base, cursor, predicate>>

\* mutant of ChunkTotal: a lane adds its own scanned value to the cursor
ChunkTotal_Own(g, l) == sdata[g][l]

\* copy_if.inl 134: the number of true flags of the chunk, the last slot
ChunkTotal(g, l) == sdata[g][cta - 1]

\* mutant of Advance: the barrier at the end of a full chunk is left out
Advance_NoBarrier(g, l) ==
  /\ pc[<<g, l>>] = "advance"
  /\ base' = [base EXCEPT ![<<g, l>>] = @ + cta]
  /\ cursor' = [cursor EXCEPT ![<<g, l>>] = @ + ChunkTotal(g, l)]
  /\ pc' = [pc EXCEPT ![<<g, l>>] = "loop"]
  /\ UNCHANGED <<ci_args, ci_host, output, written, rewritten, reads, sdata,
                 cont, predicate>>

\* copy_if.inl 128-136: advance the cursors, then the barrier
Advance(g, l) ==
  /\ pc[<<g, l>>] = "advance"
  /\ base' = [base EXCEPT ![<<g, l>>] = @ + cta]
  /\ cursor' = [cursor EXCEPT ![<<g, l>>] = @ + ChunkTotal(g, l)]
  /\ Arrive(<<g, l>>, "loop")
  /\ UNCHANGED <<ci_args, ci_host, output, written, rewritten, reads, sdata, predicate>>

\* copy_if.inl 153-160: write data of the partial chunk and leave
WriteTail(g, l) ==
  /\ pc[<<g, l>>] = "write_tail"
  /\ WriteIf(g, l)
  /\ pc' = [pc EXCEPT ![<<g, l>>] = "done"]
  /\ UNCHANGED <<ci_args, ci_host, sdata, cont, base, cursor, predicate>>

CopyIfNext ==
  \/ UNCHANGED bc_vars /\ ReturnEmpty
  \/ UNCHANGED bc_vars /\ Decompose
  \/ UNCHANGED bc_vars /\ \E g \in Groups : ReduceInterval(g)
  \/ UNCHANGED bc_vars /\ ScanPartialSums
  \/ UNCHANGED bc_vars /\ LaunchClosure
  \/ UNCHANGED bc_vars /\ ReturnEnd
  \/ UNCHANGED bc_vars /\ \E g \in Groups : BarrierRelease(g)
  \/ UNCHANGED bc_vars /\ \E g \in Groups : GroupScan(g)
  \/ UNCHANGED bc_vars /\ \E g \in Groups : \E l \in LaneIds : EnterClosure(g, l)
  \/ UNCHANGED bc_vars /\ \E g \in Groups : \E l \in LaneIds : Setup(g, l)
  \/ UNCHANGED bc_vars /\ \E g \in Groups : \E l \in LaneIds : ReadFull(g, l)
  \/ UNCHANGED bc_vars /\ \E g \in Groups : \E l \in LaneIds : ReadTail(g, l)
  \/ UNCHANGED bc_vars /\ \E g \in Groups : \E l \in LaneIds : Leave(g, l)
  \/ UNCHANGED bc_vars /\ \E g \in Groups : \E l \in LaneIds : WriteFull(g, l)
  \/ UNCHANGED bc_vars /\ \E g \in Groups : \E l \in LaneIds : Advance(g, l)
  \/ UNCHANGED bc_vars /\ \E g \in Groups : \E l \in LaneIds : WriteTail(g, l)


\* a call of copy_if, no call of block::copy
CopyIfStart == CopyIfInit /\ BlockCopyIdle

CopyIfSpec == CopyIfStart /\ [][CopyIfNext]_vars

\* a call of copy_if under a scheduler that keeps running some lane or host
\* step as long as one can run: the device runs every resident lane that is
\* not waiting at a barrier, and the host thread runs while the call lasts
CopyIfFairSpec == CopyIfStart /\ [][CopyIfNext]_vars /\ WF_vars(CopyIfNext)

(***************************************************************************)
(* block::copy and trivial_copy (block/copy.h).                            *)
(***************************************************************************)
\* the values of __CUDA_ARCH__ the model compiles for
Archs == {130, 200}

\* the element sizes sizeof(T) of the model
ElemSizes == {1, 4, 16}

\* the addresses an array of elements of size s may start at
BaseAddrs(s) == {a \in {0, 4, 5} : a % s = 0}

\* 2^k
RECURSIVE Pow2(_)
Pow2(k) == IF k = 0 THEN 1 ELSE 2 * Pow2(k - 1)

\* conversion of a value to `unsigned int`
ToUInt(x) == x % Pow2(UIntBits)

\* the byte at offset k of the source; bytes are tagged by their offset
SrcByte(k) == k + 1

\* copy.h 151-152: the byte count handed to trivial_copy, n * sizeof(T)
NumBytes == count * esize

BcLanes == 0..(dim - 1)

BlockCopyInit ==
  /\ arch \in Archs
  /\ trivial \in BOOLEAN
  /\ esize \in ElemSizes
  /\ count \in 0..MaxCount
  /\ dim \in 1..MaxDim
  /\ srcAddr \in BaseAddrs(esize)
  /\ dstAddr \in BaseAddrs(esize)
  /\ dst = [k \in 0..(NumBytes + WideSize - 1) |-> 0]
  /\ xfer = {}
  /\ lpc = [l \in BcLanes |-> "call"]
  /\ li = [l \in BcLanes |-> 0]
  /\ lnum = [l \in BcLanes |-> 0]
  /\ ret = [l \in BcLanes |-> -1]

\* mutant of UsesTrivialPath: the architecture is not looked at
UsesTrivialPath_NoArchCheck == trivial

\* copy.h 195-202: the tag block::copy dispatches on
UsesTrivialPath == arch >= FermiArch /\ trivial

\* mutant of IsMisaligned: only the destination is checked
IsMisaligned_DstOnly == dstAddr % WideSize # 0

\* copy.h 93: the alignment check of trivial_copy
IsMisaligned == dstAddr % WideSize # 0 \/ srcAddr % WideSize # 0

\* copy.h 47-53: quotient_and_remainder(n, d)
Quotient(m, d) == m \div d
Remainder(m, d) == m - d * Quotient(m, d)

\* copy.h 60, 109-112: the wide-word count received by aligned_copy
WideCount == ToUInt(Quotient(NumBytes, WideSize))

\* copy.h 60, 123: the remainder byte count received by aligned_copy
RemCount == ToUInt(Remainder(NumBytes, WideSize))

\* copy.h 120-121: the byte offset at which the remainder arrays begin
RemainderFirst == WideSize * Quotient(NumBytes, WideSize)

\* copy.h 64, 95: i += context.block_dimension() on an unsigned int
NextIndex(i) == ToUInt(i + dim)

\* mutant of NextElement: the lane advances by one element
NextElement_Unit(i) == i + 1

\* copy.h 174-175: first += context.block_dimension() on an iterator
NextElement(i) == i + dim

\* the destination bytes lo..hi-1 receive the source bytes lo..hi-1
CopyBytes(lo, hi) ==
  dst' = [k \in DOMAIN dst |-> IF lo <= k /\ k < hi THEN SrcByte(k) ELSE dst[k]]

\* copy.h 186-203, 143-152, 166-170, 79-112: the lane enters block::copy,
\* which dispatches to the per-element loop or to trivial_copy
Dispatch(l) ==
  /\ lpc[l] = "call"
  /\ li' = [li EXCEPT ![l] = l]
  /\ IF ~UsesTrivialPath
       THEN lpc' = [lpc EXCEPT ![l] = "elem_loop"] /\ UNCHANGED lnum
       ELSE IF IsMisaligned
         THEN lpc' = [lpc EXCEPT ![l] = "byte_loop"] /\ UNCHANGED lnum
         ELSE /\ lpc' = [lpc EXCEPT ![l] = "wide_loop"]
              /\ lnum' = [lnum EXCEPT ![l] = WideCount]
  /\ UNCHANGED <<bc_args, bc_mem, ret>>

\* copy.h 172-180: one iteration of the per-element loop, or its exit
ElemStep(l) ==
  /\ lpc[l] = "elem_loop"
  /\ IF li[l] < count
       THEN /\ CopyBytes(li[l] * esize, (li[l] + 1) * esize)
            /\ xfer' = xfer \cup {<<l, "elem", li[l]>>}
            /\ li' = [li EXCEPT ![l] = NextElement(li[l])]
            /\ UNCHANGED <<lpc, ret>>
       ELSE /\ lpc' = [lpc EXCEPT ![l] = "done"]
            /\ ret' = [ret EXCEPT ![l] = count]
            /\ UNCHANGED <<bc_mem, li>>
  /\ UNCHANGED <<bc_args, lnum>>

\* copy.h 95-98, 153: one iteration of the byte loop, or its exit
ByteStep(l) ==
  /\ lpc[l] = "byte_loop"
  /\ IF li[l] < NumBytes
       THEN /\ CopyBytes(li[l], li[l] + 1)
            /\ xfer' = xfer \cup {<<l, "byte", li[l]>>}
            /\ li' = [li EXCEPT ![l] = NextIndex(li[l])]
            /\ UNCHANGED <<lpc, ret>>
       ELSE /\ lpc' = [lpc EXCEPT ![l] = "done"]
            /\ ret' = [ret EXCEPT ![l] = count]
            /\ UNCHANGED <<bc_mem, li>>
  /\ UNCHANGED <<bc_args, lnum>>

\* copy.h 62-67, 109-123: one iteration of aligned_copy over wide words, or
\* its exit into aligned_copy over the remainder bytes
WideStep(l) ==
  /\ lpc[l] = "wide_loop"
  /\ IF li[l] < lnum[l]
       THEN /\ CopyBytes(li[l] * WideSize, (li[l] + 1) * WideSize)
            /\ xfer' = xfer \cup {<<l, "wide", li[l]>>}
            /\ li' = [li EXCEPT ![l] = NextIndex(li[l])]
            /\ UNCHANGED <<lpc, lnum>>
       ELSE /\ lpc' = [lpc EXCEPT ![l] = "rem_loop"]
            /\ lnum' = [lnum EXCEPT ![l] = RemCount]
            /\ li' = [li EXCEPT ![l] = l]
            /\ UNCHANGED bc_mem
  /\ UNCHANGED <<bc_args, ret>>

\* copy.h 62-67, 123-125, 153: one iteration of aligned_copy over the
\* remainder bytes, or its exit and the return of result + n
RemStep(l) ==
  /\ lpc[l] = "rem_loop"
  /\ IF li[l] < lnum[l]
       THEN /\ CopyBytes(RemainderFirst + li[l], RemainderFirst + li[l] + 1)
            /\ xfer' = xfer \cup {<<l, "byte", RemainderFirst + li[l]>>}
            /\ li' = [li EXCEPT ![l] = NextIndex(li[l])]
            /\ UNCHANGED <<lpc, ret>>
       ELSE /\ lpc' = [lpc EXCEPT ![l] = "done"]
            /\ ret' = [ret EXCEPT ![l] = count]
            /\ UNCHANGED <<bc_mem, li>>
  /\ UNCHANGED <<bc_args, lnum>>

BlockCopyNext ==
  \/ UNCHANGED ci_vars /\ \E l \in BcLanes : Dispatch(l)
  \/ UNCHANGED ci_vars /\ \E l \in BcLanes : ElemStep(l)
  \/ UNCHANGED ci_vars /\ \E l \in BcLanes : ByteStep(l)
  \/ UNCHANGED ci_vars /\ \E l \in BcLanes : WideStep(l)
  \/ UNCHANGED ci_vars /\ \E l \in BcLanes : RemStep(l)

\* a call of block::copy by every lane of a group, no call of copy_if
BlockCopyStart == BlockCopyInit /\ CopyIfIdle

BlockCopySpec == BlockCopyStart /\ [][BlockCopyNext]_vars


(***************************************************************************)
(* Properties of block::copy and trivial_copy.                             *)
(***************************************************************************)
\* every lane of the group has returned from block::copy
AllDone == \A l \in BcLanes : lpc[l] = "done"

\* the call is one whose dispatch tag is true_type: it runs trivial_copy
InTrivialCopy == arch >= 200 /\ trivial

\* the destination byte offsets a transfer writes
Covered(t) ==
  CASE t[2] = "byte" -> {t[3]}
    [] t[2] = "wide" -> (t[3] * 8)..(t[3] * 8 + 7)
    [] t[2] = "elem" -> (t[3] * esize)..(t[3] * esize + esize - 1)

\* the element positions a transfer writes (wholly or in part)
ElemsOf(t) == {k \div esize : k \in Covered(t)}

\* the lanes that have written destination byte k
WritersOf(k) == {t[1] : t \in {u \in xfer : k \in Covered(u)}}

\* destination bytes lo..hi-1 equal source bytes lo..hi-1
SameBytes(lo, hi) == \A k \in lo..(hi - 1) : k \in DOMAIN dst /\ dst[k] = SrcByte(k)

\* C4: for every byte count, group size and alignment of the two addresses,
\* once all lanes have finished trivial_copy, destination bytes 0..n-1 equal
\* source bytes 0..n-1
C4_CopyFidelity ==
  (InTrivialCopy /\ AllDone) => SameBytes(0, NumBytes)

\* C5: in trivial_copy every destination byte index in [0, numBytes) is
\* written by exactly one lane, no index is written by two different lanes,
\* and no byte at index >= numBytes is written
C5_DisjointLaneWrites ==
  InTrivialCopy =>
    /\ \A k \in DOMAIN dst : Cardinality(WritersOf(k)) <= 1
    /\ \A t \in xfer : \A k \in Covered(t) : k < NumBytes
    /\ AllDone => \A k \in 0..(NumBytes - 1) : Cardinality(WritersOf(k)) = 1

\* C6: trivial_copy performs wide-word transfers only when both the
\* destination and the source address are multiples of the wide-word size; if
\* either is misaligned, every transfer of the call is a single-byte transfer
\* and together they cover all numBytes bytes
C6_WideOnlyWhenAligned ==
  /\ (\E t \in xfer : t[2] = "wide") => (dstAddr % 8 = 0 /\ srcAddr % 8 = 0)
  /\ (InTrivialCopy /\ (dstAddr % 8 # 0 \/ srcAddr % 8 # 0)) =>
       /\ \A l \in BcLanes : lpc[l] \in {"call", "byte_loop", "done"}
       /\ \A t \in xfer : t[2] = "byte" /\ t[3] < NumBytes
       /\ AllDone => {t[3] : t \in xfer} = 0..(NumBytes - 1)

\* C6 witness: a finished call of at least one wide word whose source alone
\* is misaligned
C6_Witness ==
  /\ InTrivialCopy
  /\ AllDone
  /\ dim = 2
  /\ srcAddr % 8 # 0
  /\ dstAddr % 8 = 0
  /\ NumBytes > 8
  /\ {t[3] : t \in xfer} = 0..(NumBytes - 1)

C8_NoWideOnPreFermi ==
  arch < 200 =>
    /\ \A t \in xfer : t[2] = "elem"
    /\ \A l \in BcLanes : lpc[l] \in {"call", "elem_loop", "done"}

\* C8 witness: a finished copy of trivially copyable, aligned 16-byte
\* elements compiled for an architecture below 200
C8_Witness ==
  /\ arch < 200
  /\ trivial
  /\ esize = 16
  /\ srcAddr % 8 = 0 /\ dstAddr % 8 = 0
  /\ count >= 2
  /\ AllDone
  /\ \A p \in 0..(count - 1) : \E t \in xfer : t = <<p % dim, "elem", p>>


(***************************************************************************)
(* Properties of copy_if.                                                  *)
(***************************************************************************)
\* the positions whose stencil value satisfies the predicate
TruePositions == {p \in 0..(n - 1) : Pred(stencil[p])}

\* the number of predicate-true elements of [first, last)
NumTrue == Cardinality(TruePositions)

\* the predicate-true positions of lo..hi-1
TrueIn(lo, hi) == {p \in TruePositions : lo <= p /\ p < hi}

\* the host has returned from copy_if
Returned == hostpc = "done"

\* C1: when copy_if returns, output positions 0..k-1 hold exactly the input
\* elements whose stencil value satisfies the predicate, in their original
\* relative order (k = the number of such elements).
C1_OrderPreserved ==
  Returned =>
    \A i \in 0..(NumTrue - 1) :
      /\ i \in DOMAIN output
      /\ output[i] = InputAt(KthSmallest(TruePositions, i))

\* C1 witness: a returned call over several groups and lanes that selected
\* some but not all elements, the first selected one not being the first input
C1_Witness ==
  /\ Returned
  /\ NumGroups = 2
  /\ cta = 2
  /\ n = 3
  /\ NumTrue >= 2
  /\ NumTrue < n
  /\ 0 \notin TruePositions
  /\ \A i \in 0..(NumTrue - 1) : output[i] = InputAt(KthSmallest(TruePositions, i))

\* C2: the returned iterator is output + (the last group's offset), and that
\* offset equals the number of predicate-true elements of [first, last)
C2_CountCorrect ==
  Returned =>
    /\ returned = NumTrue
    /\ n # 0 => returned = block_results[NumGroups - 1]

\* C2 witness: an input larger than one group's lane count, spanning several
\* groups, with some true elements in the last group
C2_Witness ==
  /\ Returned
  /\ n > cta
  /\ NumGroups = 2
  /\ returned = NumTrue
  /\ TrueIn(decomp[1].begin, decomp[1].end) # {}
  /\ TrueIn(decomp[0].begin, decomp[0].end) # {}

\* C3: when first == last, copy_if returns output immediately: no
\* decomposition is built, no reduction, scan or scatter launch happens, and
\* no output position is written
C3_EmptyReturnsImmediately ==
  n = 0 =>
    /\ hostpc \in {"call", "done"}
    /\ decomp = <<>>
    /\ block_results = <<>>
    /\ launches = {}
    /\ written = {}
    /\ pc = <<>>
    /\ (hostpc = "done" => returned = 0)

\* C3 witness: the call with first == last has returned
C3_Witness == n = 0 /\ hostpc = "done" /\ returned = 0

\* lane l of group g is in the partial chunk, its flag stored, the group
\* scan not yet done
InTailBeforeScan(g, l) ==
  \/ pc[<<g, l>>] = "barrier" /\ cont[<<g, l>>] = "scan_tail"
  \/ pc[<<g, l>>] = "scan_tail"

\* lane l of group g is in the partial chunk, after the group scan
InTailAfterScan(g, l) == pc[<<g, l>>] = "write_tail"

\* C9: in the final partial chunk every lane at or beyond the interval end
\* stores flag 0 and writes no output element, so the chunk's scanned total
\* counts only in-range true flags; for an input of length groupSize + 1 whose
\* only predicate-true element is the last one, exactly that element is
\* written, at output position 0
C9_BoundaryChunk ==
  /\ \A gl \in DOMAIN pc :
       LET g == gl[1]
           l == gl[2]
           beyond == base[gl] + l >= decomp[g].end
       IN  /\ (InTailBeforeScan(g, l) /\ beyond) =>
                 (sdata[g][l] = 0 /\ predicate[gl] = 0)
           /\ (InTailAfterScan(g, l) /\ beyond) => predicate[gl] = 0
           /\ InTailAfterScan(g, l) =>
                 sdata[g][cta - 1] =
                   Cardinality(TrueIn(base[gl], decomp[g].end))
  /\ \A w \in written : w[4] < decomp[w[1]].end
  /\ (Returned /\ n = cta + 1 /\ TruePositions = {n - 1}) =>
       /\ {<<w[3], w[4]>> : w \in written} = {<<0, n - 1>>}
       /\ output[0] = InputAt(n - 1)

\* C9 witness: length groupSize + 1, only the last element true, one group:
\* a full chunk, then a partial chunk whose lane 1 is beyond the end
C9_Witness ==
  /\ Returned
  /\ cta = 2
  /\ n = cta + 1
  /\ NumGroups = 1
  /\ TruePositions = {n - 1}
  /\ output[0] = InputAt(n - 1)

\* the half-open output region of group g: [offsets[g-1], offsets[g])
RegionLo(g) == IF g = 0 THEN 0 ELSE block_results[g - 1]
RegionHi(g) == block_results[g]

\* C10: during the scatter pass group g writes only output positions in
\* [offsets[g-1], offsets[g]) (offsets[-1] = 0), and no output position is
\* written by two different (group, lane) pairs or twice by the same lane
C10_DisjointWrites ==
  /\ \A w \in written : RegionLo(w[1]) <= w[3] /\ w[3] < RegionHi(w[1])
  /\ \A w1, w2 \in written : w1[3] = w2[3] => w1 = w2
  /\ rewritten = {}

\* C10 witness: both groups, and both lanes of a group, have written
C10_Witness ==
  /\ \E w1, w2 \in written : w1[1] = 0 /\ w2[1] = 1
  /\ \E w1, w2 \in written : w1[1] = w2[1] /\ w1[2] # w2[2]
  /\ hostpc = "wait"

\* the number of predicate-true elements of group g's interval
IntervalCount(g) == Cardinality(TrueIn(decomp[g].begin, decomp[g].end))

\* the number of predicate-true elements up to the end of group g's interval
IntervalOffset(g) == Cardinality(TrueIn(0, decomp[g].end))

\* the scatter pass has started: some lane has entered the closure
ScatterStarted == \E g \in Groups : \E l \in LaneIds : pc[<<g, l>>] # "idle"

\* every lane of the scatter pass has left the closure
ScatterFinished == \A g \in Groups : \A l \in LaneIds : pc[<<g, l>>] = "done"

\* C11: copy_if runs as three strictly ordered phases.  While the reduction
\* runs, no scan and no scatter lane has started and every slot written so
\* far holds its group's count; once the scan has run, every group was
\* reduced before it and every slot holds the prefix sum of the counts; a
\* scatter lane runs only after the scan; and copy_if reads the last offset
\* for its return value only when every scatter lane has finished.
C11_PhasesOrdered ==
  /\ hostpc = "reduce" =>
       /\ launches = {"reduce"}
       /\ ~ScatterStarted
       /\ \A g \in reduced : block_results[g] = IntervalCount(g)
  /\ "scan" \in launches =>
       /\ reduced = Groups
       /\ \A g \in Groups : block_results[g] = IntervalOffset(g)
  /\ ScatterStarted => {"reduce", "scan", "scatter"} \subseteq launches
  /\ reads # {} => "scan" \in launches
  /\ (Returned /\ ~IsEmptyRange) => ScatterFinished /\ reduced = Groups

\* C11 witness: a call with two groups has gone through the three phases and
\* returned a non-zero offset
C11_Witness ==
  /\ Returned
  /\ NumGroups = 2
  /\ launches = {"reduce", "scan", "scatter"}
  /\ \E r \in reads : r[3] = "offsets"
  /\ returned > 0

\* C12: copy_if writes no output position at or beyond the returned end
\* offset (the number of predicate-true elements); when the predicate is true
\* for no element, no output position is written, the output is as it was
\* and the returned offset is 0.
C12_NoWriteBeyondEnd ==
  LET k == NumTrue
  IN  /\ \A w \in written : 0 <= w[3] /\ w[3] < k
      /\ Returned => \A w \in written : w[3] < returned
      /\ k = 0 =>
           /\ written = {}
           /\ \A p \in DOMAIN output : output[p] = 0
           /\ Returned => returned = 0

\* C12 witness: a call over three elements, none of them selected, has
\* returned after a scatter pass with a full and a partial chunk
C12_Witness ==
  /\ Returned
  /\ n = 3
  /\ NumTrue = 0
  /\ cta = 2
  /\ \E gl \in Lanes : base[gl] > decomp[gl[1]].begin

\* the output contents copy_if ends with, as a function of its arguments
\* alone: the selected elements in order, then the untouched positions
FinalOutput ==
  [p \in 0..(n - 1) |->
     IF p < NumTrue THEN InputAt(KthSmallest(TruePositions, p)) ELSE 0]

\* C13: the result of copy_if is a function of its arguments alone: whatever
\* decomposition, group size, uninitialised memory and interleaving a run
\* takes, it ends with the output contents FinalOutput and the offset
\* NumTrue, so two runs on the same arguments end alike.
C13_Deterministic ==
  Returned => output = FinalOutput /\ returned = NumTrue

\* C13 witness: a run with two groups of two lanes, partly selected input,
\* has returned
C13_Witness ==
  /\ Returned
  /\ NumGroups = 2
  /\ cta = 2
  /\ 0 < NumTrue
  /\ NumTrue < n

\* the lane has passed the set-up of lines 93-108
PastSetup(gl) ==
  /\ pc[gl] \notin {"idle", "start", "setup"}
  /\ ~(pc[gl] = "barrier" /\ cont[gl] = "setup")

\* the output offset of group g's interval, from the arguments alone
BaseOffset(g) == IF g = 0 THEN 0 ELSE IntervalOffset(g - 1)

\* C14: at the start of every chunk of group g (full or partial), and until
\* the lane advances, a lane's output cursor is the group's base offset plus
\* the number of predicate-true elements of the group's interval in the
\* chunks already processed; lanes of a group that are at the start of a
\* chunk together are at the same chunk with the same cursor.
C14_CursorAtChunkStart ==
  \A g \in Groups : \A l \in LaneIds :
    /\ PastSetup(<<g, l>>) =>
         cursor[<<g, l>>] =
           BaseOffset(g) + Cardinality(TrueIn(decomp[g].begin, base[<<g, l>>]))
    /\ \A k \in LaneIds :
         (pc[<<g, l>>] = "loop" /\ pc[<<g, k>>] = "loop") =>
           /\ base[<<g, l>>] = base[<<g, k>>]
           /\ cursor[<<g, l>>] = cursor[<<g, k>>]

\* C14 witness: the two lanes of group 1 are at the start of a later chunk,
\* with a non-zero base offset and a selected element in the chunk before
C14_Witness ==
  /\ cta = 2
  /\ NumGroups = 2
  /\ \A l \in LaneIds :
       /\ pc[<<1, l>>] = "loop"
       /\ base[<<1, l>>] > decomp[1].begin
       /\ cursor[<<1, l>>] > BaseOffset(1)
  /\ BaseOffset(1) > 0

\* C15: in the scatter pass group 0 reads no slot of the offsets array and
\* starts at offset 0, a lane of group g >= 1 reads slot g-1 and no other,
\* and the offsets array stays as the scan left it while the lanes run.
C15_OffsetReads ==
  /\ \A r \in reads : r[3] = "offsets" => r[1] >= 1 /\ r[4] = r[1] - 1
  /\ \A g \in Groups \ {0} : \A l \in LaneIds :
       PastSetup(<<g, l>>) => <<g, l, "offsets", g - 1>> \in reads
  /\ \A l \in LaneIds :
       (0 \in Groups /\ pc[<<0, l>>] = "loop"
          /\ base[<<0, l>>] = decomp[0].begin) =>
         cursor[<<0, l>>] = 0
  /\ ScatterStarted => \A g \in Groups : block_results[g] = IntervalOffset(g)

\* C15 witness: the scatter pass of two groups of two lanes has finished;
\* no lane of group 0 has read an offset, both lanes of group 1 have read a
\* non-zero one
C15_Witness ==
  /\ NumGroups = 2
  /\ cta = 2
  /\ ScatterFinished
  /\ {<<r[1], r[2]>> : r \in {q \in reads : q[3] = "offsets"}} =
       {<<1, 0>>, <<1, 1>>}
  /\ block_results[0] > 0

\* the lane has stored its flag of the current chunk and not yet scanned
Stored(gl) ==
  \/ pc[gl] = "barrier" /\ cont[gl] \in {"scan_full", "scan_tail"}
  \/ pc[gl] \in {"scan_full", "scan_tail"}

\* the lane has still to read the scanned buffer of the current chunk
Reading(gl) == pc[gl] \in {"write_full", "advance", "write_tail"}

\* the flag of lane l in the chunk that starts at b of group g
ChunkFlag(g, b, l) ==
  IF b + l < decomp[g].end THEN PredicateToIndex(stencil[b + l]) ELSE 0

\* C16: the shared scan buffer is free of races between chunks.  When a lane
\* has stored its flag for a chunk, every lane of its group is at that chunk
\* (or, for the first chunk, still at its set-up) and none has a read of the
\* chunk before outstanding; when a lane is in the
\* group scan, every lane of its group is, and the buffer holds the flags of
\* the chunk; while a lane has a read outstanding, the buffer holds the
\* prefix sums of the flags of its chunk.
C16_ScanBufferRaceFree ==
  \A g \in Groups : \A l \in LaneIds :
    /\ Stored(<<g, l>>) =>
         \A k \in LaneIds :
           /\ ~Reading(<<g, k>>)
           /\ \/ pc[<<g, k>>] = "setup" /\ base[<<g, l>>] = decomp[g].begin
              \/ /\ Stored(<<g, k>>) \/ pc[<<g, k>>] = "loop"
                 /\ base[<<g, k>>] = base[<<g, l>>]
    /\ pc[<<g, l>>] \in {"scan_full", "scan_tail"} =>
         \A k \in LaneIds :
           /\ pc[<<g, k>>] = pc[<<g, l>>]
           /\ sdata[g][k] = ChunkFlag(g, base[<<g, l>>], k)
    /\ Reading(<<g, l>>) =>
         \A k \in LaneIds :
           sdata[g][k] =
             Cardinality({j \in 0..k : ChunkFlag(g, base[<<g, l>>], j) = 1})

\* C16 witness: a lane has stored its flag for the second chunk of its group
\* after both lanes have read the scan of the first chunk
C16_Witness ==
  /\ cta = 2
  /\ \E g \in Groups :
       /\ Stored(<<g, 0>>)
       /\ base[<<g, 0>>] > decomp[g].begin
       /\ pc[<<g, 1>>] = "loop"
       /\ cursor[<<g, 1>>] > BaseOffset(g)

\* lane l of group g is in the partial chunk, at or beyond the interval end
BeyondEndInTail(g, l) ==
  /\ InTailBeforeScan(g, l) \/ InTailAfterScan(g, l)
  /\ base[<<g, l>>] + l >= decomp[g].end

\* C18: no scatter lane dereferences the input or the stencil at a position
\* outside its group's interval: every logged read of either is inside the
\* interval, every lane of a full chunk is below the interval end, and a
\* lane of the partial chunk at or beyond the end has read neither.
C18_ReadsInsideInterval ==
  /\ \A r \in reads : r[3] \in {"stencil", "input"} =>
       /\ decomp[r[1]].begin <= r[4] /\ r[4] < decomp[r[1]].end
       /\ BeyondEndInTail(r[1], r[2]) => r[4] < base[<<r[1], r[2]>>]
  /\ \A g \in Groups : \A l \in LaneIds :
       /\ (pc[<<g, l>>] = "loop" /\ FullChunk(g, l)) =>
            base[<<g, l>>] + l < decomp[g].end
       /\ BeyondEndInTail(g, l) => predicate[<<g, l>>] = 0

\* C18 witness: a group of two lanes has finished an interval of three
\* elements: lane 1 was beyond the end in the partial chunk and the group
\* has read the stencil at the three positions of the interval only
C18_Witness ==
  /\ cta = 2
  /\ NumGroups = 1
  /\ n = 3
  /\ ScatterFinished
  /\ {r[4] : r \in {q \in reads : q[3] = "stencil"}} = {0, 1, 2}
  /\ \E r \in reads : r[3] = "input" /\ r[4] = 2

\* the lanes of a group that wait at a barrier wait at the same barrier call
SameBarrierCall ==
  \A g \in Groups : \A l, k \in LaneIds :
    (pc[<<g, l>>] = "barrier" /\ pc[<<g, k>>] = "barrier") =>
      cont[<<g, l>>] = cont[<<g, k>>]

\* C17: for every interval length and group size, the lanes of a scatter
\* group that wait at a barrier wait at the same barrier call, and once the
\* closure is launched every lane of every group eventually leaves it: no
\* lane waits at a barrier forever.
C17_ScatterTerminates ==
  /\ []SameBarrierCall
  /\ (hostpc = "wait") ~> ScatterFinished

\* C17 witness: a group of two lanes has finished an interval of three
\* elements, a full chunk and a partial chunk with lane 1 beyond the end
C17_Witness ==
  /\ cta = 2
  /\ n = 3
  /\ NumGroups = 1
  /\ ScatterFinished
  /\ \A l \in LaneIds : base[<<0, l>>] = 2
  /\ hostpc = "wait"

\* the lane is in one of the strided loops of trivial_copy
InStridedLoop(l) == lpc[l] \in {"byte_loop", "wide_loop", "rem_loop"}

\* C19: every lane's strided loop in trivial_copy runs with an index that
\* only grows until it reaches the bound: no step of a loop takes the
\* fixed-width index back below its value (i += groupSize never wraps), for
\* every byte count and group size.
C19_IndexNeverWraps ==
  [][\A l \in BcLanes :
       (InStridedLoop(l) /\ lpc'[l] = lpc[l]) => li'[l] >= li[l]]_vars

\* C20: on the aligned path the wide-word count aligned_copy receives is
\* numBytes / sizeof(wide word), and once all lanes have finished, the wide
\* words 0..numBytes/sizeof(wide)-1 were transferred, the trailing byte copy
\* covers the bytes from sizeof(wide) * (numBytes / sizeof(wide)) on, and no
\* byte below numBytes is left uncopied.
C20_WideCountExact ==
  (InTrivialCopy /\ ~IsMisaligned) =>
    /\ \A l \in BcLanes :
         lpc[l] = "wide_loop" => lnum[l] = NumBytes \div WideSize
    /\ AllDone =>
         /\ {t[3] : t \in {u \in xfer : u[2] = "wide"}} =
              0..((NumBytes \div WideSize) - 1)
         /\ {t[3] : t \in {u \in xfer : u[2] = "byte"}} =
              (WideSize * (NumBytes \div WideSize))..(NumBytes - 1)
         /\ \A k \in 0..(NumBytes - 1) : WritersOf(k) # {}

====
